---- MODULE Spec2Model ----
(***************************************************************************)
(* A model of secrep.py, the "AI Empowered Investment Toolkit": the five   *)
(* cached helper functions, the number formatter of the fundamentals       *)
(* table, and the main flow of the page, report writer included.           *)
(*                                                                         *)
(* Texts the program inspects character by character (the news digest) are *)
(* sequences of one-character strings; texts it only prints are strings.   *)
(* Numbers that exceed 32 bits (market capitalisations) are kept as        *)
(* limbs: hi millions, lo units below a million, frac thousandths.         *)
(***************************************************************************)
EXTENDS Integers, Sequences, FiniteSets, TLC

VARIABLES
    \* the number formatter on its own
    num,            \* format_large_num: the argument
    formatted,      \* format_large_num: the outcome, NotCalled before the call
    \* one call of fetch_insider_trades or fetch_latest_news
    req,            \* the HTTP GET in flight, NoRequest before the call
    resp,           \* what requests.get produced, NoResponse while pending
    fetched,        \* the outcome of the fetch function, NotCalled before its end
    \* the st.cache_data(ttl=3600) wrappers of the five functions
    now,            \* the clock, in seconds
    cache,          \* per function and arguments: the stored entry or NoEntry
    lastCall,       \* the latest call of a cached function and what it did
    calls,          \* calls made so far
    \* one run of the page script
    pc,             \* the section the run is about to execute
    ticker,         \* the upper-cased text of the ticker field
    button,         \* the button whose click started this run, if any
    stock_data, fundamentals, insider_trades, news,
    sentiment_analysis,     \* Unassigned until the sentiment section assigns it
    ui,             \* the elements rendered so far, in order
    prompts,        \* the prompts passed to generate_analysis_via_gpt in this run
    report,         \* the chunks written to the report file, NoFile if none
    uncaught        \* the exception that ended the run, "none" otherwise

fmtVars == <<num, formatted>>
fetchVars == <<req, resp, fetched>>
cacheVars == <<now, cache, lastCall, calls>>
flowVars == <<pc, ticker, button, stock_data, fundamentals, insider_trades, news,
              sentiment_analysis, ui, prompts, report, uncaught>>
vars == <<fmtVars, fetchVars, cacheVars, flowVars>>

NotCalled == [ok |-> FALSE, exc |-> "not called"]
Returned(value) == [ok |-> TRUE, value |-> value]
Raised(exc) == [ok |-> FALSE, exc |-> exc]

-----------------------------------------------------------------------------
(* Values a field of the provider's info structure can hold.               *)

None == [t |-> "none"]
NaN == [t |-> "nan"]
IntVal(neg, hi, lo) == [t |-> "int", neg |-> neg, hi |-> hi, lo |-> lo, frac |-> 0]
FloatVal(neg, hi, lo, frac) == [t |-> "float", neg |-> neg, hi |-> hi, lo |-> lo, frac |-> frac]
StrVal(s) == [t |-> "str", s |-> s]

IsNumber(v) == v.t \in {"int", "float"}

\* abs(num) >= 1e9, 1e6, 1e3
AbsGe1e9(v) == v.hi >= 1000
AbsGe1e6(v) == v.hi >= 1
AbsGt1e3(v) == v.hi >= 1 \/ v.lo > 1000
AbsGe1e3(v) == v.hi >= 1 \/ v.lo >= 1000

\* The quotient q of a division by d with remainder r (and frac thousandths
\* below the unit), rounded to the nearest integer, ties to even.
RoundQuot(q, r, d, frac) ==
    IF 2 * r > d \/ (2 * r = d /\ (frac > 0 \/ q % 2 = 1)) THEN q + 1 ELSE q

TwoDigits(n) == IF n < 10 THEN "0" \o ToString(n) ELSE ToString(n)

Sign(neg) == IF neg THEN "-" ELSE ""

\* f"{x:.2f}" of the value whose hundredths are h
Fixed2(neg, h) == Sign(neg) \o ToString(h \div 100) \o "." \o TwoDigits(h % 100)

\* hundredths of num/1e9, num/1e6, num/1e3
HundredthsB(v) == RoundQuot(v.hi \div 10, (v.hi % 10) * 1000000 + v.lo, 10000000, v.frac)
HundredthsM(v) == RoundQuot((v.hi * 1000000 + v.lo) \div 10000,
                            (v.hi * 1000000 + v.lo) % 10000, 10000, v.frac)
HundredthsK(v) == RoundQuot(v.lo \div 10, v.lo % 10, 10, v.frac)

\* str(round(num, 2)) for |num| < 1e3: an int prints as it is, a float with
\* the shortest of one or two decimals
StrRound2(v) ==
    IF v.t = "int" THEN Sign(v.neg) \o ToString(v.lo)
    ELSE LET h == RoundQuot(v.lo * 100 + v.frac \div 10, v.frac % 10, 10, 0)
         IN  Sign(v.neg) \o ToString(h \div 100) \o "." \o
             (IF h % 10 = 0 THEN ToString((h % 100) \div 10) ELSE TwoDigits(h % 100))

format_large_num(v) ==
    IF v.t = "none" THEN Returned("N/A")
    ELSE IF v.t = "str" THEN Raised("TypeError")          \* abs() of a str
    ELSE IF v.t = "nan" THEN Returned("nan")              \* every comparison False
    ELSE IF AbsGe1e9(v) THEN Returned(Fixed2(v.neg, HundredthsB(v)) \o "B")
    ELSE IF AbsGe1e6(v) THEN Returned(Fixed2(v.neg, HundredthsM(v)) \o "M")
    ELSE IF AbsGe1e3(v) THEN Returned(Fixed2(v.neg, HundredthsK(v)) \o "K")
    ELSE Returned(StrRound2(v))

-----------------------------------------------------------------------------
(* The inputs of the formatter's specification.                            *)

\* Decimal ties (a dropped part of exactly half a hundredth) are left out: the
\* binary double nearest to the quotient decides them, not the decimal digits.
HiSet == {0, 1, 3, 999, 1000, 2500}
LoSet == {0, 42, 999, 1000, 1200, 400000, 999999}
FracSet == {0, 4, 500, 996}

NumInputs ==
    {None, NaN}
    \cup ({IntVal(neg, hi, lo) : neg \in BOOLEAN, hi \in HiSet, lo \in LoSet}
          \ {IntVal(TRUE, 0, 0)})
    \cup {FloatVal(neg, hi, lo, fr) : neg \in BOOLEAN, hi \in HiSet, lo \in LoSet, fr \in FracSet}

FmtIdle == num = None /\ formatted = NotCalled

FmtApply ==
    /\ formatted = NotCalled
    /\ formatted' = format_large_num(num)
    /\ UNCHANGED <<num, fetchVars, cacheVars, flowVars>>

-----------------------------------------------------------------------------
(* Texts as sequences of characters, and the operations the code applies   *)
(* to them.                                                                *)

RECURSIVE Join(_, _)
\* sep.join(parts)
Join(parts, sep) ==
    IF Len(parts) = 0 THEN <<>>
    ELSE IF Len(parts) = 1 THEN parts[1]
    ELSE parts[1] \o sep \o Join(Tail(parts), sep)

Whitespace == {" ", "\n"}

RECURSIVE LStrip(_)
LStrip(s) == IF Len(s) > 0 /\ s[1] \in Whitespace THEN LStrip(Tail(s)) ELSE s

RECURSIVE RStrip(_)
RStrip(s) ==
    IF Len(s) > 0 /\ s[Len(s)] \in Whitespace THEN RStrip(SubSeq(s, 1, Len(s) - 1)) ELSE s

\* s.strip()
Strip(s) == LStrip(RStrip(s))

\* word in s
Contains(s, word) ==
    \E i \in 1..(Len(s) - Len(word) + 1) : SubSeq(s, i, i + Len(word) - 1) = word

\* seq[:n]
Take(seq, n) == SubSeq(seq, 1, IF Len(seq) < n THEN Len(seq) ELSE n)

ErrorWord == <<"E", "r", "r", "o", "r">>
ErrorFetchingNews ==
    ErrorWord \o <<" ", "f", "e", "t", "c", "h", "i", "n", "g", " ", "n", "e", "w", "s", ":", " ">>
NoRecentNews ==
    <<"N", "o", " ", "r", "e", "c", "e", "n", "t", " ", "n", "e", "w", "s", " ",
      "f", "o", "u", "n", "d", ".">>

-----------------------------------------------------------------------------
(* What requests.get and raise_for_status produce: an exception (network   *)
(* error, timeout, non-2xx status) or the parsed body.                     *)

Exception(msg) == [kind |-> "exception", msg |-> msg]
Body(page) == [kind |-> "body", page |-> page]

NoRequest == [state |-> "none"]
NoResponse == [kind |-> "none"]

\* timeout=10 of the insider-trade GET; the news GET passes none
INSIDER_TIMEOUT == 10
NoTimeout == -1
MAX_NEWS == 5
MIN_COLS == 13

Timeout(fn) == IF fn = "fetch_insider_trades" THEN INSIDER_TIMEOUT ELSE NoTimeout

EmptyFrame == <<>>

\* the text of cell c (counted from 0, as cols[c]) of a row
Col(row, c) == row[c + 1]

row_data(cols) ==
    [FilingDate |-> Col(cols, 1), TradeDate |-> Col(cols, 2), InsiderName |-> Col(cols, 5),
     TradeType |-> Col(cols, 7), SharesTraded |-> Col(cols, 9), Price |-> Col(cols, 8),
     Value |-> Col(cols, 12)]

HasEnoughCols(cols) == ~(Len(cols) < MIN_COLS)

\* the loop over the rows of the table body
all_data(rows) ==
    LET kept == SelectSeq(rows, HasEnoughCols)
    IN  [i \in 1..Len(kept) |-> row_data(kept[i])]

\* the body of the try block
insider_trades_try(r) ==
    IF r.kind = "exception" THEN Raised(r.msg)
    ELSE IF ~r.page.table THEN Returned(EmptyFrame)
    ELSE IF ~r.page.tbody THEN Raised("AttributeError")     \* None.find_all
    ELSE Returned(all_data(r.page.rows))

fetch_insider_trades(r) ==
    LET t == insider_trades_try(r)
    IN  IF t.ok THEN t ELSE Returned(EmptyFrame)

\* item.get_text(" | ").strip()
ItemText(item) == Strip(Join(item, <<" ", "|", " ">>))

latest_news_try(r, max_news) ==
    IF r.kind = "exception" THEN Raised(r.msg)
    ELSE IF ~r.page.table THEN Returned(NoRecentNews)
    ELSE LET news_items == Take(r.page.rows, max_news)
         IN  Returned(Join([i \in 1..Len(news_items) |-> ItemText(news_items[i])], <<"\n">>))

latest_news_reraise(r, max_news) == latest_news_try(r, max_news)
fetch_latest_news(r, max_news) ==
    LET t == latest_news_try(r, max_news)
    IN  IF t.ok THEN t ELSE Returned(ErrorFetchingNews \o t.exc)

\* history = stock.history(period=period); rows carry Close and Volume
fetch_stock_data(r) ==
    IF r.kind = "exception" THEN Returned(EmptyFrame) ELSE Returned(r.page)

ErrorGeneratingGpt ==
    ErrorWord \o <<" ", "g", "e", "n", "e", "r", "a", "t", "i", "n", "g", " ", "G", "P", "T", " ",
                  "a", "n", "a", "l", "y", "s", "i", "s", ":", " ">>
IndexErrorMsg ==
    <<"l", "i", "s", "t", " ", "i", "n", "d", "e", "x", " ", "o", "u", "t", " ", "o", "f", " ",
      "r", "a", "n", "g", "e">>

\* response["choices"][0]["message"]["content"].strip()
gpt_try(r) ==
    IF r.kind = "exception" THEN Raised(r.msg)
    ELSE IF Len(r.page.choices) = 0 THEN Raised(IndexErrorMsg)
    ELSE Returned(Strip(r.page.choices[1]))

generate_analysis_via_gpt(r) ==
    LET t == gpt_try(r)
    IN  IF t.ok THEN t ELSE Returned(ErrorGeneratingGpt \o t.exc)

\* the metrics of the fundamentals mapping, in the order of the dict literal,
\* and the field of the provider's info each is read from
Metrics ==
    <<"Market Cap", "PE Ratio (TTM)", "Forward PE", "EPS (TTM)", "Dividend Yield", "Beta",
      "52-Week High", "52-Week Low">>
InfoKeys ==
    <<"marketCap", "trailingPE", "forwardPE", "trailingEps", "dividendYield", "beta",
      "fiftyTwoWeekHigh", "fiftyTwoWeekLow">>

EmptyDict == <<>>

\* info.get(key)
Get(info, key) == IF key \in DOMAIN info THEN info[key] ELSE None

\* a dict is a sequence of <<key, value>> items in insertion order
fetch_fundamentals(r) ==
    IF r.kind = "exception" THEN Returned(EmptyDict)
    ELSE Returned([i \in 1..Len(Metrics) |-> <<Metrics[i], Get(r.page, InfoKeys[i])>>])

-----------------------------------------------------------------------------
(* The pages and failures the two fetches are run against.                 *)

MaxRows == 3            \* rows of the insider-trade table
MaxItems == 6           \* rows of the news table, one more than MAX_NEWS
MaxWait == 12           \* seconds a GET without timeout is followed

ColCounts == {0, MIN_COLS - 1, MIN_COLS, MIN_COLS + 1}

\* row number r of a page, with n cells
Row(r, n) == [c \in 1..n |-> "r" \o ToString(r) \o "c" \o ToString(c - 1)]

InsiderPages ==
    {[table |-> FALSE, tbody |-> FALSE, rows |-> <<>>]}
    \cup {[table |-> TRUE, tbody |-> tb, rows |-> [r \in 1..Len(counts) |-> Row(r, counts[r])]] :
            tb \in BOOLEAN, counts \in UNION {[1..m -> ColCounts] : m \in 0..MaxRows}}

ExcMsgs == {<<>>, <<"4", "0", "4">>}
ExcNames == {"ConnectionError", "HTTPError"}

\* a news row is the sequence of its text fragments
NewsItems == {<<<<"o", "k">>>>, <<<<"E", "r", "r">>, <<"o", "r">>>>, <<ErrorWord, <<" ">>>>}

NewsPages ==
    {[table |-> FALSE, rows |-> <<>>]}
    \cup {[table |-> TRUE, rows |-> rows] : rows \in UNION {[1..m -> NewsItems] : m \in 0..MaxItems}}

Responses(fn) ==
    IF fn = "fetch_insider_trades"
    THEN {Exception(e) : e \in ExcNames} \cup {Body(p) : p \in InsiderPages}
    ELSE {Exception(e) : e \in ExcMsgs} \cup {Body(p) : p \in NewsPages}

FetchIdle == req = NoRequest /\ resp = NoResponse /\ fetched = NotCalled

\* requests.get(url, headers=headers[, timeout=10])
HttpGet(fn) ==
    /\ req = NoRequest
    /\ req' = [state |-> "pending", fn |-> fn, timeout |-> Timeout(fn), elapsed |-> 0]
    /\ UNCHANGED <<resp, fetched, fmtVars, cacheVars, flowVars>>

\* a second passes without an answer
Wait ==
    /\ req.state = "pending"
    /\ req.elapsed < (IF req.timeout = NoTimeout THEN MaxWait ELSE req.timeout)
    /\ req' = [req EXCEPT !.elapsed = @ + 1]
    /\ UNCHANGED <<resp, fetched, fmtVars, cacheVars, flowVars>>

\* the timeout of the GET, when it has one, runs out
TimeoutExpires ==
    /\ req.state = "pending"
    /\ req.timeout # NoTimeout
    /\ req.elapsed = req.timeout
    /\ req' = [req EXCEPT !.state = "done"]
    /\ resp' = Exception(IF req.fn = "fetch_insider_trades" THEN "Timeout" ELSE <<"t", "/", "o">>)
    /\ UNCHANGED <<fetched, fmtVars, cacheVars, flowVars>>

\* the server answers, or the connection fails
ServerResponds ==
    /\ req.state = "pending"
    /\ \E r \in Responses(req.fn) : resp' = r
    /\ req' = [req EXCEPT !.state = "done"]
    /\ UNCHANGED <<fetched, fmtVars, cacheVars, flowVars>>

\* the rest of the function after requests.get
FetchReturns ==
    /\ req.state = "done"
    /\ fetched = NotCalled
    /\ fetched' = IF req.fn = "fetch_insider_trades" THEN fetch_insider_trades(resp)
                  ELSE fetch_latest_news(resp, MAX_NEWS)
    /\ UNCHANGED <<req, resp, fmtVars, cacheVars, flowVars>>

-----------------------------------------------------------------------------
(* The result cache: each of the five functions is wrapped by              *)
(* st.cache_data(ttl=3600), which keeps one entry per function and         *)
(* argument tuple and stores a value only when the function returns.       *)

TTL == 3600

Ops == {"fetch_insider_trades", "fetch_stock_data", "fetch_latest_news",
        "generate_analysis_via_gpt", "fetch_fundamentals"}
CachedOps == Ops

\* the body of a function, run against what its upstream service answers
FnBody(op, r) ==
    CASE op = "fetch_insider_trades" -> fetch_insider_trades(r)
      [] op = "fetch_stock_data" -> fetch_stock_data(r)
      [] op = "fetch_latest_news" -> fetch_latest_news(r, MAX_NEWS)
      [] op = "generate_analysis_via_gpt" -> generate_analysis_via_gpt(r)
      [] op = "fetch_fundamentals" -> fetch_fundamentals(r)

NoEntry == [stored_at |-> -1]
NoCall == [at |-> -1]

ExpiredAfterTTL(entry, t) == t > entry.stored_at + TTL
\* an entry stored at stored_at is served while now < stored_at + ttl
Expired(entry, t) == ~(t < entry.stored_at + TTL)

MaxCalls == 3           \* calls of cached functions in a behaviour
MaxNow == 7200          \* the clock stops after two lifetimes of an entry
CacheArgs == {"AAPL", "TSLA"}
Deltas == {TTL - 1, TTL}

CacheKeys == Ops \X CacheArgs

PriceRow(d) == [Date |-> d, Close |-> 100 + d, Volume |-> 1000 * d]
History(n) == [d \in 1..n |-> PriceRow(d)]

\* per function: a failure of its upstream service and an answer
CacheResponses(op) ==
    CASE op = "fetch_insider_trades" ->
            {Exception("ConnectionError"),
             Body([table |-> TRUE, tbody |-> TRUE, rows |-> <<Row(1, MIN_COLS)>>])}
      [] op = "fetch_stock_data" ->
            {Exception("YFError"), Body(History(2))}
      [] op = "fetch_latest_news" ->
            {Exception(<<"4", "0", "4">>),
             Body([table |-> TRUE, rows |-> <<<<<<"u", "p">>>>>>])}
      [] op = "generate_analysis_via_gpt" ->
            {Exception(<<"4", "2", "9">>),
             Body([choices |-> <<<<"b", "u", "l", "l", " ">>>>])}
      [] op = "fetch_fundamentals" ->
            {Exception("YFError"),
             Body([k \in {"beta"} |-> IntVal(FALSE, 0, 1)])}

CacheIdle ==
    /\ now = 0
    /\ cache = [k \in CacheKeys |-> NoEntry]
    /\ lastCall = NoCall
    /\ calls = 0

\* a call op(args) while the upstream service would answer r
CachedCall(op, args, r) ==
    LET key == <<op, args>>
        entry == cache[key]
        hit == op \in CachedOps /\ entry # NoEntry /\ ~Expired(entry, now)
        out == IF hit THEN Returned(entry.value) ELSE FnBody(op, r)
    IN  /\ calls < MaxCalls
        /\ calls' = calls + 1
        /\ cache' = IF ~hit /\ out.ok /\ op \in CachedOps
                    THEN [cache EXCEPT ![key] = [value |-> out.value, stored_at |-> now]]
                    ELSE cache
        /\ lastCall' = [key |-> key, at |-> now, upstream |-> r, contacted |-> ~hit,
                        result |-> out, prior |-> entry]
        /\ UNCHANGED <<now, fmtVars, fetchVars, flowVars>>

\* d seconds pass
Advance(d) ==
    /\ now + d <= MaxNow
    /\ now' = now + d
    /\ UNCHANGED <<cache, lastCall, calls, fmtVars, fetchVars, flowVars>>

-----------------------------------------------------------------------------
(* The main flow: one run of the script, from the ticker field to the      *)
(* report button.  A cached function returns what its body returned on     *)
(* some answer of its upstream service, now or within the last hour, so    *)
(* the run draws each fetch result from the body applied to an answer.     *)

Unassigned == [assigned |-> FALSE]
Assigned(value) == [assigned |-> TRUE, value |-> value]
NoFile == [exists |-> FALSE]
File(chunks) == [exists |-> TRUE, chunks |-> chunks]

\* str.upper() on the texts typed into the ticker field
Upper(text) == CASE text = "tsla" -> "TSLA" [] text = "brk/b" -> "BRK/B" [] OTHER -> text

\* bool(s) of a str, list or dict
Truthy(s) == Len(s) > 0

\* df.empty
IsEmpty(df) == Len(df) = 0

\* the dtype pandas infers for a column built from Python objects: object when
\* it holds a str or nothing but None, int64 for ints only, else float64 with
\* None turned into NaN
ToFloat(v) == IF v.t = "none" THEN NaN ELSE IF v.t = "int" THEN [v EXCEPT !.t = "float"] ELSE v
InferColumn(values) ==
    LET all == {values[i] : i \in 1..Len(values)}
    IN  IF \E v \in all : v.t = "str" THEN values
        ELSE IF \A v \in all : v.t = "none" THEN values
        ELSE IF \A v \in all : v.t = "int" THEN values
        ELSE [i \in 1..Len(values) |-> ToFloat(values[i])]

\* fundamentals_df["Value"].apply(format_large_num)
FormattedColumn(fund) ==
    LET column == InferColumn([i \in 1..Len(fund) |-> fund[i][2]])
    IN  [i \in 1..Len(fund) |-> format_large_num(column[i])]

SentimentGuardNoErrorCheck(text) == Truthy(text)
\* if news and "Error" not in news   (the sentiment section)
SentimentGuard(text) == Truthy(text) /\ ~Contains(text, ErrorWord)

ReportGuardNoErrorCheck(text) == Truthy(text)
\* if news and "Error" not in news   (the report writer)
ReportSentimentGuard(text) == Truthy(text) /\ ~Contains(text, ErrorWord)

Prompt(kind, t, text) == [kind |-> kind, ticker |-> t, news |-> text]

\* stock_data.tail(5)
TAIL_ROWS == 5
TailRows(df) == SubSeq(df, IF Len(df) > TAIL_ROWS THEN Len(df) - TAIL_ROWS + 1 ELSE 1, Len(df))

Header(text) == [kind |-> "header", text |-> text]
Data(of, payload) == [kind |-> "data", of |-> of, payload |-> payload]

TitlePart(t) == <<[kind |-> "title", text |-> "AI Investment Report for " \o t]>>
StockPart(sd) ==
    IF ~IsEmpty(sd)
    THEN <<Header("Recent Stock Data (Last 5 rows):"), Data("stock_data", TailRows(sd))>>
    ELSE <<>>
FundamentalsPart(fund) ==
    IF Truthy(fund)
    THEN <<Header("Key Fundamentals:")>> \o [i \in 1..Len(fund) |-> Data("item", fund[i])]
    ELSE <<>>
NewsPart(text) == <<Header("Latest News:"), Data("news", text)>>
InsiderPart(it) ==
    IF ~IsEmpty(it)
    THEN <<Header("Insider Trading Activity:"), Data("insider_trades", it)>>
    ELSE <<>>

\* the writes of the report, in order, and the exception that stops them
ReportWritesInsiderFirst(t, sd, fund, text, sa, it) ==
    LET before == TitlePart(t) \o StockPart(sd) \o FundamentalsPart(fund) \o InsiderPart(it)
                  \o NewsPart(text)
    IN  IF ~ReportSentimentGuard(text) THEN [chunks |-> before, exc |-> "none"]
        ELSE IF ~sa.assigned
        THEN [chunks |-> before \o <<Header("AI Sentiment Analysis:")>>, exc |-> "NameError"]
        ELSE [chunks |-> before \o <<Header("AI Sentiment Analysis:"), Data("sentiment", sa.value)>>,
              exc |-> "none"]
ReportWrites(t, sd, fund, text, sa, it) ==
    LET before == TitlePart(t) \o StockPart(sd) \o FundamentalsPart(fund) \o NewsPart(text)
    IN  IF ~ReportSentimentGuard(text)
        THEN [chunks |-> before \o InsiderPart(it), exc |-> "none"]
        ELSE IF ~sa.assigned
        THEN [chunks |-> before \o <<Header("AI Sentiment Analysis:")>>, exc |-> "NameError"]
        ELSE [chunks |-> before \o <<Header("AI Sentiment Analysis:"), Data("sentiment", sa.value)>>
                         \o InsiderPart(it),
              exc |-> "none"]

-----------------------------------------------------------------------------
(* The inputs of a run.                                                    *)

MaxHistory == 6         \* rows of the longest price series
MaxNewsRows == 2        \* rows of the news table in a run

TickerInputs == {"", "tsla"}
Buttons == {"none", "valuation", "risk", "report"}

StockResponses ==
    {Exception("YFError")} \cup {Body(History(n)) : n \in {0, MaxHistory - 3, MaxHistory}}

\* the provider's info: two fields vary on their own, the other six are
\* present or missing together
RestInfo ==
    [k \in {"forwardPE", "trailingEps", "dividendYield", "beta", "fiftyTwoWeekHigh",
            "fiftyTwoWeekLow"} |->
        CASE k = "forwardPE" -> FloatVal(FALSE, 0, 25, 300)
          [] k = "dividendYield" -> FloatVal(FALSE, 0, 0, 4)
          [] k = "trailingEps" -> FloatVal(TRUE, 0, 1, 250)
          [] k = "beta" -> IntVal(FALSE, 0, 1)
          [] k = "fiftyTwoWeekHigh" -> FloatVal(FALSE, 0, 1200, 0)
          [] k = "fiftyTwoWeekLow" -> FloatVal(FALSE, 0, 950, 420)]
InfoChoices ==
    [marketCap : {None, IntVal(FALSE, 2500, 0)},
     trailingPE : {None, FloatVal(FALSE, 0, 28, 500), StrVal("Infinity")},
     rest : BOOLEAN]
InfoOf(c) ==
    LET keys == {k \in {"marketCap", "trailingPE"} : c[k] # None}
                \cup (IF c.rest THEN DOMAIN RestInfo ELSE {})
    IN  [k \in keys |-> IF k \in DOMAIN RestInfo THEN RestInfo[k] ELSE c[k]]
InfoResponses == {Exception("YFError")} \cup {Body(InfoOf(c)) : c \in InfoChoices}

FlowInsiderResponses ==
    {Exception("ConnectionError"),
     Body([table |-> FALSE, tbody |-> FALSE, rows |-> <<>>]),
     Body([table |-> TRUE, tbody |-> TRUE, rows |-> <<Row(1, MIN_COLS - 1), Row(2, MIN_COLS)>>])}

FlowNewsResponses ==
    {Exception(e) : e \in ExcMsgs}
    \cup {Body([table |-> FALSE, rows |-> <<>>])}
    \cup {Body([table |-> TRUE, rows |-> rows]) :
            rows \in UNION {[1..m -> NewsItems] : m \in 0..MaxNewsRows}}

GptResponses == {Exception(<<"4", "2", "9">>), Body([choices |-> <<<<"b", "u", "l", "l", " ">>>>])}

FlowIdle ==
    /\ pc = "input"
    /\ ticker = ""
    /\ button = "none"
    /\ stock_data = EmptyFrame
    /\ fundamentals = EmptyDict
    /\ insider_trades = EmptyFrame
    /\ news = <<>>
    /\ sentiment_analysis = Unassigned
    /\ ui = <<>>
    /\ prompts = <<>>
    /\ report = NoFile
    /\ uncaught = "none"

Goto(next) == pc' = next

\* ticker = st.text_input(...).upper(); if ticker:
Submit(text, clicked) ==
    /\ pc = "input"
    /\ ticker' = Upper(text)
    /\ button' = clicked
    /\ Goto(IF Truthy(Upper(text)) THEN "fetch" ELSE "done")
    /\ UNCHANGED <<stock_data, fundamentals, insider_trades, news, sentiment_analysis, ui,
                   prompts, report, uncaught, fmtVars, fetchVars, cacheVars>>

\* the four fetches at the head of the run
FetchData(rs, rf, ri, rn) ==
    /\ pc = "fetch"
    /\ stock_data' = fetch_stock_data(rs).value
    /\ fundamentals' = fetch_fundamentals(rf).value
    /\ insider_trades' = fetch_insider_trades(ri).value
    /\ news' = fetch_latest_news(rn, MAX_NEWS).value
    /\ Goto("chart")
    /\ UNCHANGED <<ticker, button, sentiment_analysis, ui, prompts, report, uncaught,
                   fmtVars, fetchVars, cacheVars>>

PriceChart ==
    /\ pc = "chart"
    /\ ui' = IF ~IsEmpty(stock_data)
             THEN ui \o <<<<"subheader", "Stock Price & Volume Trend">>,
                          <<"pyplot", [x |-> [i \in 1..Len(stock_data) |-> stock_data[i].Date],
                                       close |-> [i \in 1..Len(stock_data) |-> stock_data[i].Close],
                                       volume |-> [i \in 1..Len(stock_data) |-> stock_data[i].Volume]]>>>>
             ELSE ui \o <<<<"warning", "Could not fetch stock data for '" \o ticker \o "'.">>>>
    /\ Goto("fundamentals")
    /\ UNCHANGED <<ticker, button, stock_data, fundamentals, insider_trades, news,
                   sentiment_analysis, prompts, report, uncaught, fmtVars, fetchVars, cacheVars>>

Fundamentals ==
    /\ pc = "fundamentals"
    /\ IF Truthy(fundamentals)
       THEN LET texts == FormattedColumn(fundamentals)
            IN  IF \E i \in 1..Len(texts) : ~texts[i].ok
                THEN /\ ui' = ui \o <<<<"subheader", "Key Fundamentals">>>>
                     /\ uncaught' = "TypeError"
                     /\ Goto("crashed")
                ELSE /\ ui' = ui \o <<<<"subheader", "Key Fundamentals">>,
                                      <<"dataframe", [i \in 1..Len(texts) |->
                                            [Metric |-> fundamentals[i][1], Value |-> texts[i].value]]>>>>
                     /\ uncaught' = uncaught
                     /\ Goto("news")
       ELSE /\ ui' = ui \o <<<<"warning", "Could not retrieve fundamentals for this ticker.">>>>
            /\ uncaught' = uncaught
            /\ Goto("news")
    /\ UNCHANGED <<ticker, button, stock_data, fundamentals, insider_trades, news,
                   sentiment_analysis, prompts, report, fmtVars, fetchVars, cacheVars>>

LatestNews ==
    /\ pc = "news"
    /\ ui' = ui \o <<<<"subheader", "Latest Financial News">>, <<"write", news>>>>
    /\ Goto("sentiment")
    /\ UNCHANGED <<ticker, button, stock_data, fundamentals, insider_trades, news,
                   sentiment_analysis, prompts, report, uncaught, fmtVars, fetchVars, cacheVars>>

Sentiment(r) ==
    /\ pc = "sentiment"
    /\ IF SentimentGuard(news)
       THEN LET text == generate_analysis_via_gpt(r).value
            IN  /\ prompts' = Append(prompts, Prompt("sentiment", ticker, news))
                /\ sentiment_analysis' = Assigned(text)
                /\ ui' = ui \o <<<<"subheader", "AI Sentiment Analysis">>, <<"write", text>>>>
       ELSE /\ ui' = ui \o <<<<"warning", "No valid news available to analyze sentiment.">>>>
            /\ UNCHANGED <<prompts, sentiment_analysis>>
    /\ Goto("valuation")
    /\ UNCHANGED <<ticker, button, stock_data, fundamentals, insider_trades, news, report,
                   uncaught, fmtVars, fetchVars, cacheVars>>

\* a section with a button that asks for one more analysis
OnDemand(at, next, title, clicked, kind, r) ==
    /\ pc = at
    /\ IF button = clicked
       THEN /\ prompts' = Append(prompts, Prompt(kind, ticker, <<>>))
            /\ ui' = ui \o <<<<"subheader", title>>, <<"markdown", "experimental">>,
                             <<"write", generate_analysis_via_gpt(r).value>>>>
       ELSE /\ ui' = ui \o <<<<"subheader", title>>, <<"markdown", "experimental">>>>
            /\ UNCHANGED prompts
    /\ Goto(next)
    /\ UNCHANGED <<ticker, button, stock_data, fundamentals, insider_trades, news,
                   sentiment_analysis, report, uncaught, fmtVars, fetchVars, cacheVars>>

Valuation(r) ==
    OnDemand("valuation", "insider", "Optional: GPT Valuation Analysis", "valuation", "valuation", r)

InsiderTrading ==
    /\ pc = "insider"
    /\ ui' = ui \o <<<<"subheader", "Insider Trading Activity">>,
                     IF ~IsEmpty(insider_trades) THEN <<"dataframe", insider_trades>>
                     ELSE <<"info", "No recent insider trading activity found.">>>>
    /\ Goto("risk")
    /\ UNCHANGED <<ticker, button, stock_data, fundamentals, insider_trades, news,
                   sentiment_analysis, prompts, report, uncaught, fmtVars, fetchVars, cacheVars>>

RiskFactors(r) ==
    OnDemand("risk", "report", "Optional: GPT Risk Factors", "risk", "risk", r)

OpenFails == -1

\* the report button: written chunks reach the file up to the point where
\* the file system fails, if it does
GenerateReport(completed) ==
    /\ pc = "report"
    /\ IF button = "report"
       THEN LET file_name == ticker \o "_investment_report.txt"
                w == ReportWrites(ticker, stock_data, fundamentals, news, sentiment_analysis,
                                  insider_trades)
            IN  /\ completed \in {OpenFails} \cup 0..Len(w.chunks)
                /\ IF completed = OpenFails
                   THEN /\ report' = report
                        /\ ui' = Append(ui, <<"error", "Error generating TXT report: OSError">>)
                   ELSE IF completed < Len(w.chunks)
                   THEN /\ report' = File(SubSeq(w.chunks, 1, completed))
                        /\ ui' = Append(ui, <<"error", "Error generating TXT report: OSError">>)
                   ELSE IF w.exc # "none"
                   THEN /\ report' = File(w.chunks)
                        /\ ui' = Append(ui, <<"error", "Error generating TXT report: " \o w.exc>>)
                   ELSE /\ report' = File(w.chunks)
                        /\ ui' = Append(ui, <<"success", "Investment report saved as " \o file_name>>)
       ELSE /\ completed = OpenFails
            /\ UNCHANGED <<report, ui>>
    /\ Goto("done")
    /\ UNCHANGED <<ticker, button, stock_data, fundamentals, insider_trades, news,
                   sentiment_analysis, prompts, uncaught, fmtVars, fetchVars, cacheVars>>

MaxChunks == 18         \* no report has more chunks than this

-----------------------------------------------------------------------------
(* Claims about the formatter and the two fetches.                         *)

\* the rows of the fetched insider-trade page with at least MIN_COLS cells
FullRows == {i \in 1..Len(resp.page.rows) : Len(resp.page.rows[i]) >= MIN_COLS}
RankOf(i) == Cardinality({j \in FullRows : j <= i})

\* h is the integer nearest to (whole + frac/1000) / d, for an even d
IsNearest(whole, frac, d, h) ==
    /\ (2 * h - 1) * d <= 2 * whole
    /\ 2 * whole < (2 * h + 1) * d \/ (2 * whole = (2 * h + 1) * d /\ frac = 0)

\* h hundredths written with two decimals, and with the shortest of one or two
Dec2(neg, h) ==
    (IF neg THEN "-" ELSE "") \o ToString(h \div 100) \o "." \o
    ToString((h % 100) \div 10) \o ToString(h % 10)
Dec12(neg, h) ==
    (IF neg THEN "-" ELSE "") \o ToString(h \div 100) \o "." \o
    ToString((h % 100) \div 10) \o (IF h % 10 = 0 THEN "" ELSE ToString(h % 10))

\* C6: format_large_num gives "N/A" for a missing value; for |num| >= 1e9 the
\* value over 1e9 with two decimals and suffix B; otherwise for |num| >= 1e6
\* two decimals and suffix M; otherwise for |num| >= 1e3 two decimals and
\* suffix K; otherwise the number rounded to two decimals without suffix.
\* The thresholds themselves and negative numbers fall in exactly one case.
C6_FormatCases ==
    formatted # NotCalled =>
        /\ num = None => formatted = Returned("N/A")
        /\ IsNumber(num) =>
              \E h \in 0..100000 :
                IF num.hi >= 1000
                THEN /\ IsNearest(num.hi, num.lo + num.frac, 10, h)
                     /\ formatted = Returned(Dec2(num.neg, h) \o "B")
                ELSE IF num.hi >= 1
                THEN /\ IsNearest(num.hi * 1000000 + num.lo, num.frac, 10000, h)
                     /\ formatted = Returned(Dec2(num.neg, h) \o "M")
                ELSE IF num.lo >= 1000
                THEN /\ IsNearest(num.lo, num.frac, 10, h)
                     /\ formatted = Returned(Dec2(num.neg, h) \o "K")
                ELSE IF num.t = "int"
                THEN /\ h = num.lo
                     /\ formatted = Returned((IF num.neg THEN "-" ELSE "") \o ToString(h))
                ELSE /\ IsNearest(num.lo * 1000 + num.frac, 0, 10, h)
                     /\ formatted = Returned(Dec12(num.neg, h))
        /\ num = IntVal(FALSE, 2500, 0) => formatted = Returned("2.50B")
        /\ num = IntVal(FALSE, 3, 400000) => formatted = Returned("3.40M")
        /\ num = IntVal(FALSE, 0, 1200) => formatted = Returned("1.20K")
        /\ num = IntVal(FALSE, 0, 42) => formatted = Returned("42")
        /\ num = IntVal(FALSE, 1000, 0) => formatted = Returned("1.00B")
        /\ num = IntVal(TRUE, 1, 0) => formatted = Returned("-1.00M")
        /\ num = IntVal(FALSE, 0, 1000) => formatted = Returned("1.00K")

\* the threshold 1e3 itself has been formatted
C6_Witness == num = IntVal(FALSE, 0, 1000) /\ formatted = Returned("1.00K")

HasPrefix(s, p) == Len(s) >= Len(p) /\ SubSeq(s, 1, Len(p)) = p

\* the value a function returns when its upstream service fails
IsFailureValue(op, v) ==
    CASE op = "fetch_latest_news" -> HasPrefix(v, ErrorFetchingNews)
      [] op = "generate_analysis_via_gpt" -> HasPrefix(v, ErrorGeneratingGpt)
      [] OTHER -> Len(v) = 0

\* C1: for each of the five cached functions and every argument tuple, a call
\* made less than 3600 seconds after a value was stored for the same
\* arguments returns the stored value without an upstream call; a call made
\* once 3600 seconds have passed (or with nothing stored) calls upstream
\* again and stores what it got, so no expired value is returned.
C1_CacheTTL ==
    lastCall # NoCall =>
        LET c == lastCall
            fresh == c.prior # NoEntry /\ c.at - c.prior.stored_at < 3600
        IN  /\ fresh => ~c.contacted /\ c.result = Returned(c.prior.value)
            /\ ~fresh => /\ c.contacted
                         /\ c.result.ok
                         /\ cache[c.key] = [value |-> c.result.value, stored_at |-> c.at]

\* a value stored exactly 3600 seconds before the call has been looked up
C1_Witness ==
    /\ lastCall # NoCall
    /\ lastCall.prior # NoEntry
    /\ lastCall.at - lastCall.prior.stored_at = 3600
    /\ lastCall.contacted

\* C9: the failure outcome of a cached function is stored like a success:
\* every repeat of the call within the next 3600 seconds returns the same
\* failure value without an upstream call, even if the service has recovered.
C9_FailureCached ==
    lastCall # NoCall =>
        LET c == lastCall
        IN  /\ (c.contacted /\ c.upstream.kind = "exception") =>
                  /\ c.result.ok
                  /\ IsFailureValue(c.key[1], c.result.value)
                  /\ cache[c.key] = [value |-> c.result.value, stored_at |-> c.at]
            /\ (/\ c.prior # NoEntry
                /\ IsFailureValue(c.key[1], c.prior.value)
                /\ c.at - c.prior.stored_at < 3600) =>
                  ~c.contacted /\ c.result = Returned(c.prior.value)

\* a stored failure has been returned although the service would now answer
C9_Witness ==
    /\ lastCall # NoCall
    /\ lastCall.prior # NoEntry
    /\ IsFailureValue(lastCall.key[1], lastCall.prior.value)
    /\ lastCall.upstream.kind = "body"
    /\ ~lastCall.contacted
    /\ lastCall.at - lastCall.prior.stored_at = 3599

\* C4: every HTTP GET the program issues carries a fixed timeout, so no GET
\* is still waiting once that time has passed without an answer.
C4_EveryGetHasTimeout ==
    req # NoRequest =>
        /\ req.timeout # NoTimeout
        /\ req.state = "pending" => req.elapsed <= req.timeout

\* C7: fetch_insider_trades never raises; a page without the table gives the
\* empty result; any other page gives one record per table row of at least
\* 13 cells, in page order, rows with fewer cells being left out.
C7_OneRecordPerFullRow ==
    (fetched # NotCalled /\ req.fn = "fetch_insider_trades") =>
        /\ fetched.ok
        /\ (resp.kind = "body" /\ ~resp.page.table) => fetched.value = EmptyFrame
        /\ (resp.kind = "body" /\ resp.page.table) =>
              /\ Len(fetched.value) = Cardinality(FullRows)
              /\ \A i \in FullRows :
                    LET rec == fetched.value[RankOf(i)]
                        cols == resp.page.rows[i]
                    IN  /\ rec.FilingDate = cols[2] /\ rec.TradeDate = cols[3]
                        /\ rec.InsiderName = cols[6] /\ rec.TradeType = cols[8]
                        /\ rec.Price = cols[9] /\ rec.SharesTraded = cols[10]
                        /\ rec.Value = cols[13]

-----------------------------------------------------------------------------
(* Claims about the main flow.                                             *)

\* an element of this kind and text has been rendered
Shown(kind, text) == \E i \in 1..Len(ui) : ui[i][1] = kind /\ ui[i][2] = text
PastSentiment == pc \in {"valuation", "insider", "risk", "report", "done"}
SentimentDisplayed == Shown("subheader", "AI Sentiment Analysis")
Saved == \E i \in 1..Len(ui) : ui[i][1] = "success"
ReportPressedDone == button = "report" /\ pc = "done" /\ Len(ticker) > 0

IsHeader(chunk) == chunk.kind = "header"
HeadersOf(chunks) ==
    LET hs == SelectSeq(chunks, IsHeader) IN [i \in 1..Len(hs) |-> hs[i].text]
SectionOrder ==
    <<"Recent Stock Data (Last 5 rows):", "Key Fundamentals:", "Latest News:",
      "AI Sentiment Analysis:", "Insider Trading Activity:">>
PlaceOf(header) == CHOOSE i \in 1..Len(SectionOrder) : SectionOrder[i] = header
SentimentInFile ==
    report.exists /\ \E i \in 1..Len(report.chunks) :
        IsHeader(report.chunks[i]) /\ report.chunks[i].text = "AI Sentiment Analysis:"

\* C2: when the news digest is the failure text "Error fetching news: <msg>"
\* or is empty, the run never calls generate_analysis_via_gpt with a
\* sentiment prompt, and shows a warning instead of the sentiment section.
C2_NoSentimentOnNewsError ==
    (/\ Len(ticker) > 0 /\ pc \notin {"input", "fetch"}
     /\ (HasPrefix(news, ErrorFetchingNews) \/ Len(news) = 0)) =>
        /\ \A i \in 1..Len(prompts) : prompts[i].kind # "sentiment"
        /\ PastSentiment =>
              /\ Shown("warning", "No valid news available to analyze sentiment.")
              /\ ~SentimentDisplayed

\* a run on the failure text has passed the sentiment section with the warning
C2_Witness ==
    /\ pc = "done"
    /\ HasPrefix(news, ErrorFetchingNews)
    /\ Shown("warning", "No valid news available to analyze sentiment.")

\* C3: for a non-empty ticker and whatever the four upstream services answer,
\* the run reaches its end without an uncaught exception (stated here: no
\* run is ended by an exception).
C3_NoUncaughtException == uncaught = "none" /\ pc # "crashed"

\* C5: a report generated from a non-empty price series, non-empty
\* fundamentals, a news digest, a sentiment text and non-empty insider trades
\* holds, after the title line, the five section headers in the order stock
\* data, fundamentals, news, sentiment, insider trades; in any report file the
\* headers written keep that relative order.
C5_ReportSectionOrder ==
    report.exists =>
        LET hs == HeadersOf(report.chunks)
        IN  /\ \A i, j \in 1..Len(hs) : i < j => PlaceOf(hs[i]) < PlaceOf(hs[j])
            /\ Len(report.chunks) > 0 => report.chunks[1].kind = "title"
            /\ (/\ Saved
                /\ Len(stock_data) > 0 /\ Len(fundamentals) > 0 /\ Len(news) > 0
                /\ sentiment_analysis.assigned /\ Len(insider_trades) > 0) =>
                  hs = SectionOrder

\* a report with all five sections has been saved
C5_Witness == Saved /\ report.exists /\ Len(HeadersOf(report.chunks)) = 5

\* the fundamentals tables rendered so far
FundamentalsTables ==
    {i \in 2..Len(ui) : ui[i][1] = "dataframe" /\ ui[i - 1][1] = "subheader"
                        /\ ui[i - 1][2] = "Key Fundamentals"}

\* C8: for a ticker with a non-empty price series, the chart is fed a
\* non-empty series and the fundamentals table shown has exactly the 8 named
\* rows, each value being a formatted number or "N/A" (stated here for the
\* runs that show the table).
C8_EightFormattedRows ==
    \A i \in FundamentalsTables :
        Len(stock_data) > 0 =>
            /\ \E j \in 1..Len(ui) : ui[j][1] = "pyplot" /\ Len(ui[j][2].x) > 0
            /\ [k \in 1..Len(ui[i][2]) |-> ui[i][2][k].Metric] =
                  <<"Market Cap", "PE Ratio (TTM)", "Forward PE", "EPS (TTM)", "Dividend Yield",
                    "Beta", "52-Week High", "52-Week Low">>
            /\ \A k \in 1..Len(ui[i][2]) :
                  LET v == fundamentals[k][2]
                  IN  IF v = None THEN ui[i][2][k].Value = "N/A"
                      ELSE ui[i][2][k].Value \in {format_large_num(v).value,
                                                 format_large_num(ToFloat(v)).value}

NameErrorRaised == Shown("error", "Error generating TXT report: NameError")

\* C10 as claimed: in every run in which the report button is pressed, the
\* writer never reads an unassigned sentiment value and the sentiment section
\* is written if and only if the sentiment section was displayed.
C10_SectionIffDisplayed ==
    ReportPressedDone => ~NameErrorRaised /\ (SentimentInFile <=> SentimentDisplayed)

\* C10 as amended: in every run in which the report button is pressed, the
\* writer never reads an unassigned sentiment value and writes the sentiment
\* section only if the sentiment section was displayed; when the report is
\* saved without an I/O error, the section is written if and only if the
\* sentiment section was displayed.
C10_SectionOnlyIfDisplayed ==
    ReportPressedDone =>
        /\ ~NameErrorRaised
        /\ SentimentInFile => SentimentDisplayed /\ sentiment_analysis.assigned
        /\ Saved => (SentimentInFile <=> SentimentDisplayed)

\* a saved report holds the sentiment section of a run that displayed it
C10_Witness == ReportPressedDone /\ Saved /\ SentimentInFile /\ SentimentDisplayed

-----------------------------------------------------------------------------
FmtInit == num \in NumInputs /\ formatted = NotCalled /\ FetchIdle /\ CacheIdle /\ FlowIdle
FmtNext == FmtApply
SpecFmt == FmtInit /\ [][FmtNext]_vars

FetchInit == FetchIdle /\ FmtIdle /\ CacheIdle /\ FlowIdle
FetchNext ==
    \/ \E fn \in {"fetch_insider_trades", "fetch_latest_news"} : HttpGet(fn)
    \/ Wait
    \/ TimeoutExpires
    \/ ServerResponds
    \/ FetchReturns
SpecFetch == FetchInit /\ [][FetchNext]_vars

CacheInit == CacheIdle /\ FmtIdle /\ FetchIdle /\ FlowIdle
CacheNext ==
    \/ \E op \in Ops, args \in CacheArgs : \E r \in CacheResponses(op) : CachedCall(op, args, r)
    \/ \E d \in Deltas : Advance(d)
SpecCache == CacheInit /\ [][CacheNext]_vars

FlowInit == FlowIdle /\ FmtIdle /\ FetchIdle /\ CacheIdle
FlowNext ==
    \/ \E text \in TickerInputs, clicked \in Buttons : Submit(text, clicked)
    \/ \E rs \in StockResponses, rf \in InfoResponses, ri \in FlowInsiderResponses,
          rn \in FlowNewsResponses : FetchData(rs, rf, ri, rn)
    \/ PriceChart
    \/ Fundamentals
    \/ LatestNews
    \/ \E r \in GptResponses : Sentiment(r)
    \/ \E r \in GptResponses : Valuation(r)
    \/ InsiderTrading
    \/ \E r \in GptResponses : RiskFactors(r)
    \/ \E completed \in OpenFails..MaxChunks : GenerateReport(completed)
SpecFlow == FlowInit /\ [][FlowNext]_vars

====
